---------------------------- MODULE Spec2Model ----------------------------
(***************************************************************************)
(* A model of the shipwreck data tools: the Cleaner                        *)
(* (clean_shipwrecks.py, clean_shipwreck_dataset) and the Explorer         *)
(* (app.py: dms_to_decimal, filter_by_year_and_type,                       *)
(* compute_summary_stats and the script body that Streamlit reruns on      *)
(* every sidebar interaction).                                             *)
(*                                                                         *)
(* Text is a sequence of one-character strings.  A table cell is a record  *)
(* [k, s, m, e]: k = "null" is pandas' NaN/None, k = "text" carries the    *)
(* characters s, k = "num" is the decimal number m / 10^e (normalised: m   *)
(* is not a multiple of 10 unless e = 0).  Floating-point rounding is not  *)
(* modelled: numbers are exact decimals.                                   *)
(***************************************************************************)
EXTENDS Integers, Sequences, FiniteSets, TLC

VARIABLES
    coord, decimal, dpc,                 \* dms_to_decimal: argument, result, position
    raw, cleaned, recleaned, cpc,        \* Cleaner: raw file, output, output of a re-clean
    df, selection, filtered_df, map_data, summary, epc   \* Explorer: table, widgets, results

vars == <<coord, decimal, dpc, raw, cleaned, recleaned, cpc,
          df, selection, filtered_df, map_data, summary, epc>>

dmsVars == <<coord, decimal, dpc>>
cleanVars == <<raw, cleaned, recleaned, cpc>>
explVars == <<df, selection, filtered_df, map_data, summary, epc>>

(***************************************************************************)
(* Bounds of the model.                                                    *)
(***************************************************************************)
MaxLen == 5      \* every text over the input alphabets up to this length is an input
MaxRawRows == 3  \* records of a raw file
MaxRows == 2     \* rows of the Explorer's table

(***************************************************************************)
(* Cells.                                                                  *)
(***************************************************************************)
Null == [k |-> "null", s |-> <<>>, m |-> 0, e |-> 0]
Text(str) == [k |-> "text", s |-> str, m |-> 0, e |-> 0]

RECURSIVE Normalise(_, _)
Normalise(m, e) ==
    IF e > 0 /\ m % 10 = 0 THEN Normalise(m \div 10, e - 1)
    ELSE [k |-> "num", s |-> <<>>, m |-> m, e |-> e]

Num(m, e) == Normalise(m, e)

IsNull(c) == c.k = "null"
IsText(c) == c.k = "text"
IsNum(c) == c.k = "num"

RECURSIVE Pow10(_)
Pow10(n) == IF n = 0 THEN 1 ELSE 10 * Pow10(n - 1)

\* a <= b for two "num" cells
NumLeq(a, b) == a.m * Pow10(b.e) <= b.m * Pow10(a.e)

(***************************************************************************)
(* Characters.                                                             *)
(***************************************************************************)
Digits == {"0", "1", "2", "3", "4", "5", "6", "7", "8", "9"}
Whitespace == {" "}

DigitVal(c) ==
    CASE c = "0" -> 0 [] c = "1" -> 1 [] c = "2" -> 2 [] c = "3" -> 3
      [] c = "4" -> 4 [] c = "5" -> 5 [] c = "6" -> 6 [] c = "7" -> 7
      [] c = "8" -> 8 [] c = "9" -> 9

DigitChar(d) == <<"0", "1", "2", "3", "4", "5", "6", "7", "8", "9">>[d + 1]

RECURSIVE DigitsToNat(_)
DigitsToNat(str) ==
    IF str = <<>> THEN 0
    ELSE 10 * DigitsToNat(SubSeq(str, 1, Len(str) - 1)) + DigitVal(str[Len(str)])

RECURSIVE NatToDigits(_)
NatToDigits(n) ==
    IF n < 10 THEN <<DigitChar(n)>>
    ELSE Append(NatToDigits(n \div 10), DigitChar(n % 10))

\* the index after the longest run of characters of class cls that starts at i
RECURSIVE RunEnd(_, _, _)
RunEnd(str, i, cls) ==
    IF i <= Len(str) /\ str[i] \in cls THEN RunEnd(str, i + 1, cls) ELSE i

StringsUpTo(alphabet, n) == UNION {[1..len -> alphabet] : len \in 0..n}

\* str(x) of a float, as astype(str) and to_csv write it: positional notation with
\* at least one fractional digit, scientific notation when the decimal exponent is
\* below -4 or at least 16 ("1e-05", "1.5e-05").
Repr(c) ==
    LET a == IF c.m < 0 THEN 0 - c.m ELSE c.m
        sign == IF c.m < 0 THEN <<"-">> ELSE <<>>
        ds == NatToDigits(a)
        n == Len(ds)
        x == n - 1 - c.e
        ax == IF x < 0 THEN 0 - x ELSE x
        mant == IF n = 1 THEN ds ELSE <<ds[1], ".">> \o SubSeq(ds, 2, n)
        expo == (IF x < 0 THEN <<"e", "-">> ELSE <<"e", "+">>)
                    \o (IF ax < 10 THEN <<"0">> ELSE <<>>) \o NatToDigits(ax)
    IN  IF a = 0 THEN <<"0", ".", "0">>
        ELSE IF x < -4 \/ x >= 16 THEN sign \o mant \o expo
        ELSE IF c.e = 0 THEN sign \o ds \o <<".", "0">>
        ELSE IF n > c.e
             THEN sign \o SubSeq(ds, 1, n - c.e) \o <<".">> \o SubSeq(ds, n - c.e + 1, n)
        ELSE sign \o <<"0", ".">> \o [i \in 1..(c.e - n) |-> "0"] \o ds

\* str(x) of a cell value: text is itself, NaN is "nan"
Str(c) ==
    IF IsText(c) THEN c.s
    ELSE IF IsNull(c) THEN <<"n", "a", "n">>
    ELSE Repr(c)

(***************************************************************************)
(* Text helpers of the Cleaner.                                            *)
(***************************************************************************)
\* the characters of the model in ASCII order; CharCode orders them as Python does
Ascii == <<" ", "#", "$", ",", "-", ".", "/",
           "0", "1", "2", "3", "4", "5", "6", "7", "8", "9", ":",
           "A", "E", "N", "S", "W", "X", "a", "c", "e", "f", "k", "n", "o", "s",
           "t", "u", "w", "x">>

CharCode(c) == CHOOSE i \in DOMAIN Ascii : Ascii[i] = c

\* a < b for str objects: the first differing character decides, a prefix is less
RECURSIVE StrLess(_, _)
StrLess(a, b) ==
    IF b = <<>> THEN FALSE
    ELSE IF a = <<>> THEN TRUE
    ELSE IF a[1] = b[1] THEN StrLess(Tail(a), Tail(b))
    ELSE CharCode(a[1]) < CharCode(b[1])

\* str.strip()
RECURSIVE Strip(_)
Strip(str) ==
    IF str = <<>> THEN str
    ELSE IF str[1] \in Whitespace THEN Strip(Tail(str))
    ELSE IF str[Len(str)] \in Whitespace THEN Strip(SubSeq(str, 1, Len(str) - 1))
    ELSE str

\* str.replace(ch, "", regex=False)
RemoveChar(str, ch) == SelectSeq(str, LAMBDA x : x # ch)

\* The float a text denotes, Null when it denotes none: what pd.to_numeric(...,
\* errors="coerce") and read_csv's type inference accept: white space around,
\* a sign, digits with at most one point and at least one digit, an exponent.
\* ("nan" parses to NaN, which is Null as well; "inf" is not in the alphabets.)
ParseFloat(text) ==
    LET str == Strip(text)
        n == Len(str)
        hasSign == n >= 1 /\ str[1] \in {"-", "+"}
        i0 == IF hasSign THEN 2 ELSE 1
        i1 == RunEnd(str, i0, Digits)
        hasPoint == i1 <= n /\ str[i1] = "."
        f0 == IF hasPoint THEN i1 + 1 ELSE i1
        f1 == RunEnd(str, f0, Digits)
        hasExp == f1 <= n /\ str[f1] \in {"e", "E"}
        hasExpSign == hasExp /\ f1 + 1 <= n /\ str[f1 + 1] \in {"-", "+"}
        x0 == IF hasExpSign THEN f1 + 2 ELSE IF hasExp THEN f1 + 1 ELSE f1
        x1 == RunEnd(str, x0, Digits)
        end == IF hasExp THEN x1 ELSE f1
        mant == DigitsToNat(SubSeq(str, i0, i1 - 1) \o SubSeq(str, f0, f1 - 1))
        expo == IF ~hasExp THEN 0
                ELSE IF hasExpSign /\ str[f1 + 1] = "-"
                     THEN 0 - DigitsToNat(SubSeq(str, x0, x1 - 1))
                ELSE DigitsToNat(SubSeq(str, x0, x1 - 1))
        scale == (f1 - f0) - expo
        signed == IF hasSign /\ str[1] = "-" THEN 0 - mant ELSE mant
    IN  IF \/ (i1 - i0) + (f1 - f0) = 0
           \/ hasExp /\ x1 = x0
           \/ end # n + 1
        THEN Null
        ELSE IF scale >= 0 THEN Num(signed, scale)
        ELSE Num(signed * Pow10(0 - scale), 0)

\* pd.to_numeric(series, errors="coerce"), one cell
ToNumeric(c) == IF IsText(c) THEN ParseFloat(c.s) ELSE c

\* .str.extract(r"([0-9.]+)"): the first maximal run of digits and points
NumRunChars == Digits \cup {"."}

RECURSIVE FirstIn(_, _, _)
FirstIn(str, i, cls) ==
    IF i > Len(str) \/ str[i] \in cls THEN i ELSE FirstIn(str, i + 1, cls)

ExtractNumRun(str) ==
    LET i == FirstIn(str, 1, NumRunChars)
    IN  IF i > Len(str) THEN Null
        ELSE Text(SubSeq(str, i, RunEnd(str, i, NumRunChars) - 1))

(***************************************************************************)
(* app.py: dms_to_decimal.                                                 *)
(* The result is None or a float; the float deg + min/60 + sec/3600 is     *)
(* kept exactly as its number of arc-seconds, secs = 3600 * decimal.       *)
(***************************************************************************)
NoneResult == [none |-> TRUE, secs |-> 0]
Decimal(secs) == [none |-> FALSE, secs |-> secs]

Hemispheres == {"N", "S", "E", "W"}

\* re.match(r"(\d+)-(\d+)-(\d+)\s*([NSEW]?)", str): anchored at the start only.
\* Each group is the whole digit run (what follows a group must be "-", or
\* anything at all after the third), so greedy matching never backtracks.
ReMatchDms(str) ==
    LET d1 == RunEnd(str, 1, Digits)
        m0 == d1 + 1
        m1 == RunEnd(str, m0, Digits)
        s0 == m1 + 1
        s1 == RunEnd(str, s0, Digits)
        w1 == RunEnd(str, s1, Whitespace)
        hasDir == w1 <= Len(str) /\ str[w1] \in Hemispheres
    IN  IF /\ d1 > 1
           /\ d1 <= Len(str) /\ str[d1] = "-"
           /\ m1 > m0
           /\ m1 <= Len(str) /\ str[m1] = "-"
           /\ s1 > s0
        THEN [ok |-> TRUE,
              deg |-> SubSeq(str, 1, d1 - 1),
              minutes |-> SubSeq(str, m0, m1 - 1),
              sec |-> SubSeq(str, s0, s1 - 1),
              direction |-> IF hasDir THEN str[w1] ELSE "",
              end |-> IF hasDir THEN w1 + 1 ELSE w1]
        ELSE [ok |-> FALSE, deg |-> <<>>, minutes |-> <<>>, sec |-> <<>>,
              direction |-> "", end |-> 0]

\* the arc-seconds of a match with the hemisphere letter ignored
NoNegateDmsValue(match) ==
    3600 * DigitsToNat(match.deg) + 60 * DigitsToNat(match.minutes)
        + DigitsToNat(match.sec)

\* decimal = float(deg) + float(minutes)/60 + float(sec)/3600, negated for S and W
DmsValue(match) ==
    LET secs == 3600 * DigitsToNat(match.deg) + 60 * DigitsToNat(match.minutes)
                    + DigitsToNat(match.sec)
    IN  IF match.direction \in {"S", "W"} THEN 0 - secs ELSE secs

dms_to_decimal(c) ==
    IF IsNull(c) THEN NoneResult
    ELSE LET match == ReMatchDms(Str(c))
         IN  IF ~match.ok THEN NoneResult ELSE Decimal(DmsValue(match))

(***************************************************************************)
(* clean_shipwrecks.py: clean_shipwreck_dataset.                           *)
(* A file is a sequence of rows, a row maps a column name to the field's   *)
(* text.  The model keeps the columns the Cleaner treats differently: the  *)
(* sort key, a text column, two of the nine numeric columns (DRAFT is the  *)
(* filtered one) and the four coordinate columns.                          *)
(***************************************************************************)
RawColumns == {"YEAR", "VESSEL TYPE", "LENGTH", "DRAFT",
               "LATITUDE", "LATITUDE_BACKUP", "LONGITUDE", "LONGITUDE_BACKUP"}

numeric_cols == {"LENGTH", "DRAFT"}

DraftBound == 81

\* the texts read_csv reads as NaN by default (compared with the whole field)
NaValues == {
    <<>>,
    <<"#", "N", "/", "A">>,
    <<"#", "N", "/", "A", " ", "N", "/", "A">>,
    <<"#", "N", "A">>,
    <<"-", "1", ".", "#", "I", "N", "D">>,
    <<"-", "1", ".", "#", "Q", "N", "A", "N">>,
    <<"-", "N", "a", "N">>,
    <<"-", "n", "a", "n">>,
    <<"1", ".", "#", "I", "N", "D">>,
    <<"1", ".", "#", "Q", "N", "A", "N">>,
    <<"<", "N", "A", ">">>,
    <<"N", "/", "A">>,
    <<"N", "A">>,
    <<"N", "U", "L", "L">>,
    <<"N", "a", "N">>,
    <<"N", "o", "n", "e">>,
    <<"n", "/", "a">>,
    <<"n", "a", "n">>,
    <<"n", "u", "l", "l">> }

\* the texts the Cleaner replaces by NaN
NullMarkers == {
    <<>>,
    <<" ">>,
    <<" ", " ">>,
    <<"N", "/", "A">>,
    <<"n", "a">>,
    <<"N", "A">> }

\* pd.read_csv(path): a field that is an NA text is NaN; a column whose other
\* fields all parse as numbers is numeric, any other column keeps its texts
ReadCsv(file) ==
    LET IsNumeric(col) ==
            \A i \in DOMAIN file :
                file[i][col] \in NaValues \/ ParseFloat(file[i][col]) # Null
    IN  [i \in DOMAIN file |->
            [col \in DOMAIN file[i] |->
                IF file[i][col] \in NaValues THEN Null
                ELSE IF IsNumeric(col) THEN ParseFloat(file[i][col])
                ELSE Text(file[i][col])]]

MapCells(table, cols, F(_)) ==
    [i \in DOMAIN table |->
        [col \in DOMAIN table[i] |->
            IF col \in cols THEN F(table[i][col]) ELSE table[i][col]]]

\* df.apply(lambda col: col.str.strip() if col.dtype == "object" else col)
StripCell(c) == IF IsText(c) THEN Text(Strip(c.s)) ELSE c

\* df.replace(["", " ", "  ", "N/A", "na", "NA"], np.nan)
ReplaceCell(c) == IF IsText(c) /\ c.s \in NullMarkers THEN Null ELSE c

\* astype(str), replace(","), extract, to_numeric
NumericCell(c) == ToNumeric(ExtractNumRun(RemoveChar(Str(c), ",")))

\* combine_first, then to_numeric
CombineFirst(primary, backup) == IF IsNull(primary) THEN backup ELSE primary

ResolveCoordinates(table) ==
    [i \in DOMAIN table |->
        [col \in DOMAIN table[i] \cup {"LAT", "LON"} |->
            IF col = "LAT"
            THEN ToNumeric(CombineFirst(table[i]["LATITUDE"], table[i]["LATITUDE_BACKUP"]))
            ELSE IF col = "LON"
            THEN ToNumeric(CombineFirst(table[i]["LONGITUDE"], table[i]["LONGITUDE_BACKUP"]))
            ELSE table[i][col]]]

\* df[df["DRAFT"] <= 81]: a comparison with NaN is False
DraftInBound(row) == IsNum(row["DRAFT"]) /\ NumLeq(row["DRAFT"], Num(DraftBound, 0))

DepthFilter(table) == SelectSeq(table, DraftInBound)

\* df.drop_duplicates(): the first of equal rows is kept
RECURSIVE DropDuplicates(_)
DropDuplicates(table) ==
    IF table = <<>> THEN <<>>
    ELSE LET init == DropDuplicates(SubSeq(table, 1, Len(table) - 1))
             last == table[Len(table)]
         IN  IF \E i \in DOMAIN init : init[i] = last THEN init ELSE Append(init, last)

\* the table before the depth filter: lines 7 to 52
Normalised(file) ==
    ResolveCoordinates(
        MapCells(
            MapCells(MapCells(ReadCsv(file), RawColumns \cup {"LAT", "LON"}, StripCell),
                     RawColumns \cup {"LAT", "LON"}, ReplaceCell),
            numeric_cols, NumericCell))

\* the order of sort_values(by="YEAR"): numbers by value, an object column by its
\* strings, NaN last
YearLeq(a, b) ==
    IF IsNull(b) THEN TRUE
    ELSE IF IsNull(a) THEN FALSE
    ELSE IF IsNum(a) /\ IsNum(b) THEN NumLeq(a, b)
    ELSE ~StrLess(b.s, a.s)

\* sort_values uses quicksort, which is not stable: every order of the rows that
\* is sorted by the key is a possible output
SortOutputs(table) ==
    LET n == Len(table)
        perms == {p \in [1..n -> 1..n] : \A i, j \in 1..n : i # j => p[i] # p[j]}
    IN  {[i \in 1..n |-> table[p[i]]] :
            p \in {q \in perms :
                    \A i, j \in 1..n :
                        i < j => YearLeq(table[q[i]]["YEAR"], table[q[j]]["YEAR"])}}

CleanOutputs(file) == SortOutputs(DropDuplicates(DepthFilter(Normalised(file))))

\* cleaned.to_csv(..., index=False): NaN is the empty field, a float its repr
ToCsvCell(c) == IF IsNull(c) THEN <<>> ELSE Str(c)

ToCsv(table) ==
    [i \in DOMAIN table |-> [col \in DOMAIN table[i] |-> ToCsvCell(table[i][col])]]

(***************************************************************************)
(* Inputs of dms_to_decimal: None, every text over DmsAlphabet up to       *)
(* MaxLen characters, and longer coordinates of the data set's form.       *)
(***************************************************************************)
DmsAlphabet == {"3", "-", "S", " ", ".", "x"}

DmsExamples == {
    <<"3", "9", "-", "3", "0", "-", "0", "0", "N">>,
    <<"3", "9", "-", "3", "0", "-", "0", "0", "S">>,
    <<"7", "4", "-", "3", "0", "-", "1", "5", "W">>,
    <<"7", "4", "-", "3", "0", "-", "1", "5", "E">>,
    <<"3", "9", "-", "3", "0", "-", "0", "0">>,
    <<"3", "9", "-", "3", "0", "-", "0", "0", " ", "N">>,
    <<"3", "9", "-", "3", "0", "-", "0", "0", "X">>,
    <<"3", "9", "-", "3", "0", "-", "0", "0", "N", "x">>,
    <<"x", "3", "9", "-", "3", "0", "-", "0", "0", "N">>,
    <<"3", "9", ":", "3", "0", ":", "0", "0", "N">>,
    <<"3", "9", "-", "3", "0", "N">>,
    <<"3", "9", "-", "3", "0", "-", "1", "5", ".", "5", "S">>,
    <<"3", "9", "-", "3", "0", ".", "5", "-", "0", "0", "N">>,
    <<"3", "-", "3", "-", "3", "S">>,
    <<"3", "-", "3", "-", "3", "W">>,
    <<"3", "-", "3", "-", "3", ".", "3", "S">>,
    <<"3", "9", ".", "5">> }

DmsInputs ==
    {Null, Num(395, 1)}
        \cup {Text(str) : str \in StringsUpTo(DmsAlphabet, MaxLen) \cup DmsExamples}

IdleDms == coord = Null /\ decimal = NoneResult /\ dpc = "idle"
IdleCleaner == raw = <<>> /\ cleaned = <<>> /\ recleaned = <<>> /\ cpc = "idle"
NoSelection == [type |-> Null, year_range |-> <<0, 0>>, causes |-> {}, max_depth |-> 0]
NoSummary == [total |-> 0, earliest |-> Null, latest |-> Null]

IdleExplorer ==
    /\ df = <<>>
    /\ selection = NoSelection
    /\ filtered_df = <<>>
    /\ map_data = <<>>
    /\ summary = NoSummary
    /\ epc = "idle"

InitDms ==
    /\ coord \in DmsInputs
    /\ decimal = NoneResult
    /\ dpc = "called"
    /\ IdleCleaner
    /\ IdleExplorer

\* one call of dms_to_decimal(coord)
CallDms ==
    /\ dpc = "called"
    /\ decimal' = dms_to_decimal(coord)
    /\ dpc' = "returned"
    /\ UNCHANGED <<coord, cleanVars, explVars>>

NextDms == CallDms

SpecDms == InitDms /\ [][NextDms]_vars

(***************************************************************************)
(* The Cleaner's runs: clean(file), then clean of its own output,          *)
(* clean(to_csv(clean(file))).                                             *)
(***************************************************************************)
Clean ==
    /\ cpc = "start"
    /\ \E out \in CleanOutputs(raw) : cleaned' = out
    /\ cpc' = "cleaned"
    /\ UNCHANGED <<raw, recleaned, dmsVars, explVars>>

Reclean ==
    /\ cpc = "cleaned"
    /\ \E out \in CleanOutputs(ToCsv(cleaned)) : recleaned' = out
    /\ cpc' = "recleaned"
    /\ UNCHANGED <<raw, cleaned, dmsVars, explVars>>

NextClean == Clean \/ Reclean

BaseRow ==
    [col \in RawColumns |->
        CASE col = "YEAR" -> <<"1", "9", "0", "0">>
          [] col = "VESSEL TYPE" -> <<"S", "c", "o", "w">>
          [] col = "LENGTH" -> <<"4", "5">>
          [] col = "DRAFT" -> <<"1", "0">>
          [] col = "LATITUDE" -> <<"3", "9", "-", "3", "0", "-", "0", "0", "N">>
          [] col = "LONGITUDE" -> <<"7", "4", "-", "3", "0", "-", "0", "0", "W">>
          [] OTHER -> <<>>]

StartClean(file) ==
    /\ raw = file
    /\ cleaned = <<>>
    /\ recleaned = <<>>
    /\ cpc = "start"
    /\ IdleDms
    /\ IdleExplorer

\* numeric fields: every text over NumAlphabet up to MaxLen characters, and the
\* longer texts of the specification
NumAlphabet == {"4", ".", ",", "a", " "}

NumExamples == {
    <<"1", ",", "2", "3", "4", ".", "5", " ", "t", "o", "n", "s">>,
    <<"u", "n", "k", "n", "o", "w", "n">>,
    <<"c", "a", ".", " ", "4", "5">>,
    <<"4", "5", " ", "f", "t">>,
    <<"0", ".", "0", "0", "0", "0", "1", " ", "f", "t">>,
    <<"N", "/", "A">>,
    <<"4", ".", "4", ".", "4">> }

InitCell ==
    \E field \in StringsUpTo(NumAlphabet, MaxLen) \cup NumExamples :
        StartClean(<<[BaseRow EXCEPT !["LENGTH"] = field]>>)

SpecCell == InitCell /\ [][NextClean]_vars

\* coordinate fields of one record
CoordTokens == {
    <<>>,
    <<"3", "9", "-", "3", "0", "-", "0", "0", "N">>,
    <<"7", "4", "-", "3", "0", "-", "0", "0", "W">>,
    <<"3", "9", ".", "5">>,
    <<"-", "7", "4", ".", "5">>,
    <<" ", "N", "/", "A", " ">> }

InitCoord ==
    \E la, lab, lo, lob \in CoordTokens :
        StartClean(<<[BaseRow EXCEPT !["LATITUDE"] = la, !["LATITUDE_BACKUP"] = lab,
                                     !["LONGITUDE"] = lo, !["LONGITUDE_BACKUP"] = lob]>>)

SpecCoord == InitCoord /\ [][NextClean]_vars

\* tables of up to MaxRawRows records that differ in YEAR and DRAFT
YearTokens == {
    <<"1", "9", "0", "0">>,
    <<"9", "9", "9">>,
    <<"n", "a">> }

DraftTokens == {
    <<"1", "0">>,
    <<>>,
    <<"9", "0">>,
    <<"0", ".", "0", "0", "0", "0", "1", " ", "f", "t">> }

TableRows ==
    {[BaseRow EXCEPT !["YEAR"] = y, !["DRAFT"] = d] : y \in YearTokens, d \in DraftTokens}

InitTable ==
    \E n \in 0..MaxRawRows : \E file \in [1..n -> TableRows] : StartClean(file)

SpecTable == InitTable /\ [][NextClean]_vars

(***************************************************************************)
(* app.py: the Explorer.  Its table holds the cleaned file's typed cells;  *)
(* load_data adds lat and lon, the results of dms_to_decimal.              *)
(***************************************************************************)
\* int(x) of a float: truncation towards zero
IntOf(c) ==
    IF c.m >= 0 THEN c.m \div Pow10(c.e) ELSE 0 - ((0 - c.m) \div Pow10(c.e))

NonNull(table, col) == {table[i][col] : i \in {j \in DOMAIN table : ~IsNull(table[j][col])}}

\* Series.min() and Series.max(): NaN is skipped, the result is NaN when nothing is left
SeriesMin(table, col) ==
    IF NonNull(table, col) = {} THEN Null
    ELSE CHOOSE x \in NonNull(table, col) : \A y \in NonNull(table, col) : NumLeq(x, y)

SeriesMax(table, col) ==
    IF NonNull(table, col) = {} THEN Null
    ELSE CHOOSE x \in NonNull(table, col) : \A y \in NonNull(table, col) : NumLeq(y, x)

AllTypes == Text(<<"A", "l", "l">>)

\* data[(data["YEAR"] >= start_year) & (data["YEAR"] <= end_year)]
YearInRange(row, start_year, end_year) ==
    /\ IsNum(row["YEAR"])
    /\ NumLeq(Num(start_year, 0), row["YEAR"])
    /\ NumLeq(row["YEAR"], Num(end_year, 0))

\* if vessel_type and vessel_type != "All": None and "" are falsy
TypeSelected(vessel_type) ==
    ~IsNull(vessel_type) /\ vessel_type.s # <<>> /\ vessel_type # AllTypes

filter_by_year_and_type(data, start_year, end_year, vessel_type) ==
    LET filtered == SelectSeq(data, LAMBDA row : YearInRange(row, start_year, end_year))
    IN  IF TypeSelected(vessel_type)
        THEN SelectSeq(filtered, LAMBDA row : row["VESSEL TYPE"] = vessel_type)
        ELSE filtered

\* a depth mask that lets a row with a missing DRAFT through
KeepsMissingDraft(row, max_depth) ==
    IsNull(row["DRAFT"]) \/ NumLeq(row["DRAFT"], Num(max_depth, 0))

\* filtered_df[filtered_df["DRAFT"] <= max_depth]
DraftAtMost(row, max_depth) ==
    IsNum(row["DRAFT"]) /\ NumLeq(row["DRAFT"], Num(max_depth, 0))

\* lines 103 to 108
ApplyFilters(data, sel) ==
    LET byYearAndType ==
            filter_by_year_and_type(data, sel.year_range[1], sel.year_range[2], sel.type)
        byCause ==
            IF sel.causes # {}
            THEN SelectSeq(byYearAndType, LAMBDA row : row["CAUSE OF LOSS"] \in sel.causes)
            ELSE byYearAndType
    IN  SelectSeq(byCause, LAMBDA row : DraftAtMost(row, sel.max_depth))

\* summary statistics with 0 for the years of an empty set
ZeroWhenEmpty(data) ==
    [total |-> Len(data),
     earliest |-> IF data = <<>> THEN Num(0, 0) ELSE SeriesMin(data, "YEAR"),
     latest |-> IF data = <<>> THEN Num(0, 0) ELSE SeriesMax(data, "YEAR")]

\* total, earliest, latest = len(data), data["YEAR"].min(), data["YEAR"].max()
compute_summary_stats(data) ==
    [total |-> Len(data),
     earliest |-> SeriesMin(data, "YEAR"),
     latest |-> SeriesMax(data, "YEAR")]

\* lines 189 to 195: rows with both coordinates, DRAFT filled with 10, the radius
MapData(filtered) ==
    LET located == SelectSeq(filtered, LAMBDA row : ~row["lat"].none /\ ~row["lon"].none)
        Filled(row) == IF IsNum(row["DRAFT"]) THEN row["DRAFT"] ELSE Num(10, 0)
        Radius(d) == IF NumLeq(Num(5000, 0), Num(d.m * 1000, d.e))
                     THEN Num(d.m * 1000, d.e) ELSE Num(5000, 0)
    IN  [i \in DOMAIN located |->
            [lat |-> located[i]["lat"], lon |-> located[i]["lon"],
             DRAFT |-> Filled(located[i]), marker_radius |-> Radius(Filled(located[i]))]]

\* the sidebar's widgets, lines 86 to 99
VesselTypes(table) == {AllTypes} \cup NonNull(table, "VESSEL TYPE")
Causes(table) == NonNull(table, "CAUSE OF LOSS")
HasYear(table) == NonNull(table, "YEAR") # {}
HasDraft(table) == NonNull(table, "DRAFT") # {}
MinYear(table) == IntOf(SeriesMin(table, "YEAR"))
MaxYear(table) == IntOf(SeriesMax(table, "YEAR"))
MaxDraft(table) == IntOf(SeriesMax(table, "DRAFT"))

\* what the widgets return on the first run
Defaults(table) ==
    [type |-> AllTypes,
     year_range |-> IF HasYear(table) THEN <<MinYear(table), MaxYear(table)>> ELSE <<0, 0>>,
     causes |-> {},
     max_depth |-> IF HasYear(table) /\ HasDraft(table) THEN MaxDraft(table) ELSE 0]

\* what the widgets can return after an interaction; a widget the script did not
\* reach (an exception above it) keeps its place-holder
Selections(table) ==
    {[type |-> ty, year_range |-> yr, causes |-> cs, max_depth |-> md] :
        ty \in VesselTypes(table),
        yr \in IF HasYear(table)
               THEN {<<a, b>> : a \in MinYear(table)..MaxYear(table),
                                b \in MinYear(table)..MaxYear(table)}
                        \cap {r \in Int \X Int : r[1] <= r[2]}
               ELSE {<<0, 0>>},
        cs \in IF HasYear(table) THEN SUBSET Causes(table) ELSE {{}},
        md \in IF HasYear(table) /\ HasDraft(table) THEN 0..MaxDraft(table) ELSE {0}}

\* one run of the script with the widgets at sel: where it ends and what it computed.
\* int(NaN) raises ValueError at line 90 (no year in the table), at line 99 (no
\* draft) and at line 121 (no year in the filtered table).
Script(table, sel) ==
    LET filtered == ApplyFilters(table, sel)
        stats == compute_summary_stats(filtered)
    IN  IF ~HasYear(table)
        THEN [at |-> "raised_line_90", filtered |-> <<>>, stats |-> NoSummary, map |-> <<>>]
        ELSE IF ~HasDraft(table)
        THEN [at |-> "raised_line_99", filtered |-> <<>>, stats |-> NoSummary, map |-> <<>>]
        ELSE IF IsNull(stats.earliest) \/ IsNull(stats.latest)
        THEN [at |-> "raised_line_121", filtered |-> filtered, stats |-> stats, map |-> <<>>]
        ELSE [at |-> "rendered", filtered |-> filtered, stats |-> stats,
              map |-> MapData(filtered)]

\* load_data(): read_csv, then the lat and lon columns
LoadedRow(row) ==
    [col \in DOMAIN row \cup {"lat", "lon"} |->
        IF col = "lat" THEN dms_to_decimal(row["LATITUDE"])
        ELSE IF col = "lon" THEN dms_to_decimal(row["LONGITUDE"])
        ELSE row[col]]

RunWith(sel) ==
    LET run == Script(df, sel)
    IN  /\ selection' = sel
        /\ filtered_df' = run.filtered
        /\ summary' = run.stats
        /\ map_data' = run.map
        /\ epc' = run.at
        /\ UNCHANGED <<df, dmsVars, cleanVars>>

\* the first run of the script: every widget returns its default
FirstRun ==
    /\ epc = "loaded"
    /\ RunWith(Defaults(df))

\* a sidebar interaction changes one widget: Streamlit reruns the whole script
\* with the new values
OneWidgetChanged(old, new) ==
    Cardinality({w \in {"type", "year_range", "causes", "max_depth"} : old[w] # new[w]}) = 1

Interact ==
    /\ epc \in {"rendered", "raised_line_90", "raised_line_99", "raised_line_121"}
    /\ \E sel \in {s \in Selections(df) : OneWidgetChanged(selection, s)} : RunWith(sel)

\* filter_by_year_and_type(df, start_year, end_year) called without a vessel type
CallFilter ==
    /\ epc = "loaded"
    /\ \E a, b \in 1899..1902 :
        /\ selection' = [NoSelection EXCEPT !.year_range = <<a, b>>]
        /\ filtered_df' = filter_by_year_and_type(df, a, b, Null)
    /\ epc' = "filtered"
    /\ UNCHANGED <<df, summary, map_data, dmsVars, cleanVars>>

\* compute_summary_stats(df) on a table as loaded
CallSummary ==
    /\ epc = "loaded"
    /\ summary' = compute_summary_stats(df)
    /\ epc' = "summarised"
    /\ UNCHANGED <<df, selection, filtered_df, map_data, dmsVars, cleanVars>>

NextExplorer == FirstRun \/ Interact \/ CallFilter \/ CallSummary

\* rows of a cleaned file
ExplorerRow(year, type, cause, draft, latitude) ==
    [col \in {"YEAR", "VESSEL TYPE", "CAUSE OF LOSS", "DRAFT", "LATITUDE", "LONGITUDE"} |->
        CASE col = "YEAR" -> year
          [] col = "VESSEL TYPE" -> type
          [] col = "CAUSE OF LOSS" -> cause
          [] col = "DRAFT" -> draft
          [] col = "LATITUDE" -> latitude
          [] col = "LONGITUDE" -> Text(<<"7", "4", "-", "3", "0", "-", "0", "0", "W">>)]

Scow == Text(<<"S", "c", "o", "w">>)
Brig == Text(<<"B", "r", "i", "g">>)
Storm == Text(<<"S", "t", "o", "r", "m">>)
Fire == Text(<<"F", "i", "r", "e">>)
North == Text(<<"3", "9", "-", "3", "0", "-", "0", "0", "N">>)

ExplorerRows == {
    ExplorerRow(Num(1900, 0), Scow, Storm, Num(1, 0), North),
    ExplorerRow(Num(1901, 0), Scow, Fire, Num(2, 0), North),
    ExplorerRow(Num(1901, 0), Brig, Storm, Num(1, 0), Null),
    ExplorerRow(Num(1900, 0), Brig, Fire, Num(15, 1), North),
    ExplorerRow(Null, Scow, Storm, Num(1, 0), North),
    ExplorerRow(Num(1900, 0), Scow, Storm, Null, North),
    ExplorerRow(Num(1901, 0), Null, Fire, Num(1, 0), North),
    ExplorerRow(Num(1900, 0), Brig, Null, Num(2, 0), Null) }

InitExplorer ==
    /\ \E n \in 0..MaxRows : \E file \in [1..n -> ExplorerRows] :
            df = [i \in 1..n |-> LoadedRow(file[i])]
    /\ selection = NoSelection
    /\ filtered_df = <<>>
    /\ map_data = <<>>
    /\ summary = NoSummary
    /\ epc = "loaded"
    /\ IdleDms
    /\ IdleCleaner

SpecExplorer == InitExplorer /\ [][NextExplorer]_vars

(***************************************************************************)
(* Claims about dms_to_decimal (SpecDms).                                  *)
(* RefDms is the pattern of the specification, read on the whole text:     *)
(* D-M-S, minutes and seconds with an optional fractional part, optional   *)
(* white space and an optional hemisphere letter, and nothing after it.    *)
(***************************************************************************)
FracEnd(str, i) ==
    IF i <= Len(str) /\ str[i] = "." /\ RunEnd(str, i + 1, Digits) > i + 1
    THEN RunEnd(str, i + 1, Digits) ELSE i

RefDms(str) ==
    LET d1 == RunEnd(str, 1, Digits)
        m0 == d1 + 1
        m1 == RunEnd(str, m0, Digits)
        m2 == FracEnd(str, m1)
        s0 == m2 + 1
        s1 == RunEnd(str, s0, Digits)
        s2 == FracEnd(str, s1)
        w1 == RunEnd(str, s2, Whitespace)
        hasDir == w1 <= Len(str) /\ str[w1] \in Hemispheres
        end == IF hasDir THEN w1 + 1 ELSE w1
    IN  IF /\ d1 > 1
           /\ d1 <= Len(str) /\ str[d1] = "-"
           /\ m1 > m0
           /\ m2 <= Len(str) /\ str[m2] = "-"
           /\ s1 > s0
           /\ end = Len(str) + 1
        THEN [ok |-> TRUE,
              deg |-> SubSeq(str, 1, d1 - 1),
              mi |-> SubSeq(str, m0, m1 - 1),
              mf |-> SubSeq(str, m1 + 1, m2 - 1),
              si |-> SubSeq(str, s0, s1 - 1),
              sf |-> SubSeq(str, s1 + 1, s2 - 1),
              direction |-> IF hasDir THEN str[w1] ELSE ""]
        ELSE [ok |-> FALSE, deg |-> <<>>, mi |-> <<>>, mf |-> <<>>, si |-> <<>>,
              sf |-> <<>>, direction |-> ""]

\* 3600 * (D + M/60 + S/3600) * 10^(fractional digits of M and S), signed
RefSecsScaled(r) ==
    LET v == 3600 * DigitsToNat(r.deg) * Pow10(Len(r.mf) + Len(r.sf))
                + 60 * DigitsToNat(r.mi \o r.mf) * Pow10(Len(r.sf))
                + DigitsToNat(r.si \o r.sf) * Pow10(Len(r.mf))
    IN  IF r.direction \in {"S", "W"} THEN 0 - v ELSE v

DmsAgrees(r) ==
    /\ ~decimal.none
    /\ decimal.secs * Pow10(Len(r.mf) + Len(r.sf)) = RefSecsScaled(r)

\* C3, as stated: for every valid D-M-S[H], minutes and seconds integer or
\* fractional, the result is D + M/60 + S/3600, negated for S and W.
C3_Original ==
    (dpc = "returned" /\ IsText(coord) /\ RefDms(coord.s).ok)
        => DmsAgrees(RefDms(coord.s))

\* C3, amended: for every D-M-S[H] whose degrees, minutes and seconds are runs of
\* decimal digits, the result is D + M/60 + S/3600, negated for S and W.
C3_IntegerDms ==
    (/\ dpc = "returned" /\ IsText(coord) /\ RefDms(coord.s).ok
     /\ RefDms(coord.s).mf = <<>> /\ RefDms(coord.s).sf = <<>>)
        => DmsAgrees(RefDms(coord.s))

C3_Witness ==
    /\ dpc = "returned" /\ IsText(coord) /\ RefDms(coord.s).ok
    /\ RefDms(coord.s).mf = <<>> /\ RefDms(coord.s).sf = <<>>
    /\ RefDms(coord.s).direction = "W"
    /\ decimal = Decimal(0 - (74 * 3600 + 30 * 60 + 15))

\* C4, as stated: null, or a text that is not the whole pattern D-M-S[H] (other
\* delimiter, missing group, extra characters before or after, invalid hemisphere
\* letter), gives None and never a number.
C4_MalformedIsNone ==
    (dpc = "returned" /\ (~IsText(coord) \/ ~RefDms(coord.s).ok)) => decimal.none

(***************************************************************************)
(* Claims about the Cleaner (SpecCell, SpecCoord, SpecTable).              *)
(***************************************************************************)
Rows(table) == {table[i] : i \in DOMAIN table}

\* C1, as stated: the depth filter drops only records whose normalised DRAFT is a
\* known value above 81: a record whose DRAFT is missing after normalisation is
\* retained and appears in the cleaned output.
C1_MissingDraftRetained ==
    cpc # "start" =>
        \A row \in Rows(Normalised(raw)) : IsNull(row["DRAFT"]) => row \in Rows(cleaned)

\* the decimal degrees a coordinate field denotes equal the resolved number
IsWholeDms(c) ==
    IsText(c) /\ RefDms(c.s).ok /\ RefDms(c.s).mf = <<>> /\ RefDms(c.s).sf = <<>>

DegreesAgree(resolved, field) ==
    IF IsWholeDms(field)
    THEN /\ IsNum(resolved)
         /\ resolved.m * 3600 = RefSecsScaled(RefDms(field.s)) * Pow10(resolved.e)
    ELSE resolved = ToNumeric(field)

FallbackHolds(row, primary, backup, resolved) ==
    /\ (IsNull(row[primary]) /\ IsWholeDms(row[backup]))
            => DegreesAgree(row[resolved], row[backup])
    /\ ~IsNull(row[primary]) => DegreesAgree(row[resolved], row[primary])

\* C2, as stated: a missing primary latitude with a valid DMS backup resolves to the
\* backup's decimal degrees ("39-30-00N" gives 39.5), a present primary resolves to
\* the primary's decimal degrees, and the same holds for the longitude.
C2_CoordinateFallback ==
    cpc # "start" =>
        \A row \in Rows(cleaned) :
            /\ FallbackHolds(row, "LATITUDE", "LATITUDE_BACKUP", "LAT")
            /\ FallbackHolds(row, "LONGITUDE", "LONGITUDE_BACKUP", "LON")

\* C5, as stated: the cleaned rows are non-decreasing in the numeric value of YEAR
\* over the rows whose year is not missing.
C5_SortedByYear ==
    cpc # "start" =>
        \A i, j \in DOMAIN cleaned :
            (/\ i < j
             /\ IsNum(ToNumeric(cleaned[i]["YEAR"]))
             /\ IsNum(ToNumeric(cleaned[j]["YEAR"])))
                => NumLeq(ToNumeric(cleaned[i]["YEAR"]), ToNumeric(cleaned[j]["YEAR"]))

\* a row with every field that denotes a number replaced by that number, so that
\* the text "1900" and the number 1900 compare equal
ByValue(row) ==
    [col \in DOMAIN row |-> IF IsNum(ToNumeric(row[col])) THEN ToNumeric(row[col]) ELSE row[col]]

\* C6, as stated: cleaning the Cleaner's own output gives the same set of rows: no
\* further row dropped, no field value changed, no duplicate introduced.
C6_Idempotent ==
    cpc = "recleaned" =>
        /\ {ByValue(row) : row \in Rows(recleaned)} = {ByValue(row) : row \in Rows(cleaned)}
        /\ Len(recleaned) = Len(cleaned)

\* C9: the digits-and-points block that holds the first digit of the text, commas
\* removed, read from any of its points up to that digit
FirstDigitRuns(str) ==
    LET d == FirstIn(str, 1, Digits)
        end == RunEnd(str, d, NumRunChars)
    IN  IF d > Len(str) THEN {}
        ELSE {SubSeq(str, k, end - 1) :
                k \in {j \in 1..d : \A x \in j..d : str[x] \in NumRunChars}}

\* C9, as stated: a numeric cell is the number parsed from the first run of digits
\* (optionally with a decimal point) of its text, commas removed, and is missing
\* only when there is no such run or the run does not parse; a period before the
\* first digits ("ca. 45") does not prevent the extraction.
C9_FirstDigitRun ==
    cpc # "start" =>
        \A i \in DOMAIN cleaned :
            LET runs == FirstDigitRuns(RemoveChar(raw[i]["LENGTH"], ","))
            IN  cleaned[i]["LENGTH"] \in
                    (IF runs = {} THEN {Null} ELSE {ParseFloat(run) : run \in runs})

(***************************************************************************)
(* Claims about the Explorer (SpecExplorer).                               *)
(***************************************************************************)
FiltersRan == epc \in {"rendered", "raised_line_121"}

\* the row passes every predicate of the selection
Matches(row, sel) ==
    /\ IsNum(row["YEAR"])
    /\ sel.year_range[1] * Pow10(row["YEAR"].e) <= row["YEAR"].m
    /\ row["YEAR"].m <= sel.year_range[2] * Pow10(row["YEAR"].e)
    /\ (sel.type \in {Null, AllTypes} \/ row["VESSEL TYPE"] = sel.type)
    /\ (sel.causes = {} \/ row["CAUSE OF LOSS"] \in sel.causes)
    /\ IsNum(row["DRAFT"])
    /\ row["DRAFT"].m <= sel.max_depth * Pow10(row["DRAFT"].e)

\* out holds exactly the rows of table at the positions idx, in the table's order
RowsAt(out, table, idx) ==
    /\ Len(out) = Cardinality(idx)
    /\ \A n \in 1..Len(out) :
          out[n] = table[CHOOSE i \in idx : Cardinality({j \in idx : j <= i}) = n]

\* C7: the filtered table is exactly the rows with start <= YEAR <= end, the
\* selected vessel type unless it is absent or "All", a selected cause unless none
\* is selected, and DRAFT <= max draft, in the order of the source table; rows
\* with a missing YEAR or a missing DRAFT are excluded.
C7_FilterComposition ==
    /\ FiltersRan =>
          RowsAt(filtered_df, df, {i \in DOMAIN df : Matches(df[i], selection)})
    /\ epc = "filtered" =>
          RowsAt(filtered_df, df,
                 {i \in DOMAIN df :
                    /\ IsNum(df[i]["YEAR"])
                    /\ selection.year_range[1] <= df[i]["YEAR"].m
                    /\ df[i]["YEAR"].m <= selection.year_range[2]})

C7_Witness ==
    /\ epc = "rendered"
    /\ selection.type = Scow
    /\ selection.causes = {Storm}
    /\ Len(df) = 2
    /\ IsNull(df[2]["DRAFT"])
    /\ Matches(df[1], selection)
    /\ filtered_df = <<df[1]>>

\* the summary agrees with the rows of data
SummaryOf(data) ==
    LET years == {data[i]["YEAR"].m : i \in {j \in DOMAIN data : IsNum(data[j]["YEAR"])}}
    IN  /\ summary.total = Len(data)
        /\ data = <<>> => (summary.total = 0 /\ IsNull(summary.earliest) /\ IsNull(summary.latest))
        /\ years = {} => (IsNull(summary.earliest) /\ IsNull(summary.latest))
        /\ years # {} =>
              /\ IsNum(summary.earliest) /\ IsNum(summary.latest)
              /\ summary.earliest.m \in years /\ summary.latest.m \in years
              /\ \A y \in years : summary.earliest.m <= y /\ y <= summary.latest.m

\* C8: compute_summary_stats returns the row count, and the least and the greatest
\* non-missing YEAR; on an empty set the count is 0 and both years are missing,
\* not 0 or another number.
C8_SummaryStats ==
    /\ FiltersRan => SummaryOf(filtered_df)
    /\ epc = "summarised" => SummaryOf(df)

C8_Witness ==
    /\ epc = "raised_line_121"
    /\ df # <<>>
    /\ filtered_df = <<>>
    /\ summary = [total |-> 0, earliest |-> Null, latest |-> Null]

\* C10, as stated: every rerun of the script reaches the end of rendering without
\* raising, for every cleaned table and every sequence of sidebar interactions,
\* also when the filtered set is empty and when values are missing.
C10_NeverRaises == epc \notin {"raised_line_90", "raised_line_99", "raised_line_121"}

====
